---------------------------- MODULE Spec2Model ----------------------------
(***************************************************************************)
(* A model of the category classifier (src/intention-detector.ts) and of   *)
(* the sendMessage pipeline that calls it (src/dialogic-feedback.ts).      *)
(*                                                                         *)
(* A text is a sequence of tokens.  A token is a word in some letter case, *)
(* one whitespace character (" " or "\n"), or one quotation mark.  Words   *)
(* are the atoms of the model: lowercasing, whitespace collapsing,         *)
(* trimming, substring search and the quote test all work on tokens.       *)
(***************************************************************************)
EXTENDS Integers, Sequences, FiniteSets, TLC

(***************************************************************************)
(* Bounds of the model.                                                    *)
(***************************************************************************)
\* A user text is the concatenation of at most MaxPieces pieces of Pieces.
MaxPieces == 4
\* A conversation receives at most MaxSends messages through sendMessage.
MaxSends == 2
\* A completion stream delivers at most MaxDeltas fragments.
MaxDeltas == 2
\* The small value of the constructor option maxHistoryChars, in tokens.
SmallHistoryChars == 6
\* A history given to trimHistoryToCharLimit holds at most MaxTurns turns.
MaxTurns == 3
\* A grade holds at most MaxItems selected feedback items.
MaxItems == 2

Null == "null"

(***************************************************************************)
(* Tokens.                                                                 *)
(***************************************************************************)
SP == " "
NL == "\n"
DQ == "\""
SQ == "'"

\* /\s/ of the regular expressions at intention-detector.ts:123 and of trim()
IsSpace(t) == t \in {SP, NL}

\* the character class ["'] of the quote test, intention-detector.ts:77
IsQuoteChar(t) == t \in {DQ, SQ}

\* String.prototype.toLowerCase on one token
LowerToken(t) ==
  CASE t = "OPEN" -> "open"
    [] t = "GATH" -> "gath"
    [] t = "PERS" -> "pers"
    [] t = "SHARE" -> "share"
    [] t = "AGREE" -> "agree"
    [] t = "CLOSE" -> "close"
    [] t = "REL" -> "rel"
    [] t = "Opens" -> "opens"
    [] t = "Discussion" -> "discussion"
    [] t = "Gathers" -> "gathers"
    [] t = "Information" -> "information"
    [] t = "Patient" -> "patient"
    [] t = "Perspective" -> "perspective"
    [] t = "Shares" -> "shares"
    [] t = "Reaches" -> "reaches"
    [] t = "Agreement" -> "agreement"
    [] t = "Provides" -> "provides"
    [] t = "Closure" -> "closure"
    [] t = "Builds" -> "builds"
    [] t = "Relationship" -> "relationship"
    [] t = "Agenda" -> "agenda"
    [] t = "Setting" -> "setting"
    [] t = "Treatment" -> "treatment"
    [] OTHER -> t

\* String.prototype.toLowerCase
toLowerCase(s) == [i \in 1..Len(s) |-> LowerToken(s[i])]

(***************************************************************************)
(* The configuration tables of mirs-categories (imported at                *)
(* intention-detector.ts:12-18), in declaration order.                     *)
(***************************************************************************)
CategoryKeys == <<"OPEN", "GATH", "PERS", "SHARE", "AGREE", "CLOSE", "REL">>

Categories == {CategoryKeys[i] : i \in 1..Len(CategoryKeys)}

CATEGORY_LABELS ==
  [c \in Categories |->
     CASE c = "OPEN" -> <<"Opens", SP, "the", SP, "Discussion">>
       [] c = "GATH" -> <<"Gathers", SP, "Information">>
       [] c = "PERS" -> <<"Patient", SP, "Perspective">>
       [] c = "SHARE" -> <<"Shares", SP, "Information">>
       [] c = "AGREE" -> <<"Reaches", SP, "Agreement">>
       [] c = "CLOSE" -> <<"Provides", SP, "Closure">>
       [] c = "REL" -> <<"Builds", SP, "Relationship">>]

\* the item names of each category
MIRS_CATEGORIES ==
  [c \in Categories |->
     CASE c = "OPEN" -> << <<"greeting">> >>
       [] c = "GATH" -> << <<"agenda", SP, "setting">>, <<"open", SP, "question">> >>
       [] c = "PERS" -> << <<"empathy">> >>
       [] c = "SHARE" -> << <<"information">> >>
       [] c = "AGREE" -> << <<"shared", SP, "plan">> >>
       [] c = "CLOSE" -> << <<"summary">> >>
       [] c = "REL" -> << <<"rapport">> >>]

\* the trigger patterns of each category (regular expression sources; the
\* patterns of the model are literal phrases)
SYNONYMS ==
  [c \in Categories |->
     CASE c = "AGREE" -> << <<"treatment", SP, "options">> >>
       [] c = "CLOSE" -> << <<"wrap", SP, "up">> >>
       [] OTHER -> << >>]

\* the property names every object literal inherits from Object.prototype
ObjectPrototypeKeys ==
  {"constructor", "toString", "valueOf", "hasOwnProperty", "isPrototypeOf",
   "propertyIsEnumerable", "toLocaleString", "__proto__"}

(***************************************************************************)
(* normalizeText, intention-detector.ts:116-126.                           *)
(***************************************************************************)
\* text.replace(/["]/g, '"').replace(/'/g, "'"): each quotation mark the two
\* classes hold is replaced by itself
ReplaceQuotes(s) ==
  [i \in 1..Len(s) |->
     CASE s[i] = DQ -> DQ
       [] s[i] = SQ -> SQ
       [] OTHER -> s[i]]

RECURSIVE SkipSpace(_)
SkipSpace(s) ==
  IF s # << >> /\ IsSpace(Head(s)) THEN SkipSpace(Tail(s)) ELSE s

\* replace(/\s+/g, " ")
RECURSIVE CollapseSpace(_)
CollapseSpace(s) ==
  IF s = << >> THEN << >>
  ELSE IF IsSpace(Head(s)) THEN <<SP>> \o CollapseSpace(SkipSpace(s))
  ELSE <<Head(s)>> \o CollapseSpace(Tail(s))

RECURSIVE DropTrailingSpace(_)
DropTrailingSpace(s) ==
  IF s # << >> /\ IsSpace(s[Len(s)])
  THEN DropTrailingSpace(SubSeq(s, 1, Len(s) - 1))
  ELSE s

\* String.prototype.trim
Trim(s) == DropTrailingSpace(SkipSpace(s))

\* normalizeText without the trim
normalizeTextNoTrim(text) ==
  IF text = << >> THEN << >>
  ELSE toLowerCase(CollapseSpace(ReplaceQuotes(text)))

normalizeText(text) ==
  IF text = << >> THEN << >>
  ELSE toLowerCase(Trim(CollapseSpace(ReplaceQuotes(text))))


(***************************************************************************)
(* String and regular-expression helpers used by detect.                   *)
(***************************************************************************)
\* String.prototype.includes
includes(hay, needle) ==
  \E i \in 1..(Len(hay) - Len(needle) + 1) :
     SubSeq(hay, i, i + Len(needle) - 1) = needle

\* the pattern, compiled with the 'i' flag, matches s at position j
MatchesAt(pattern, s, j) ==
  /\ j >= 1
  /\ j + Len(pattern) - 1 <= Len(s)
  /\ toLowerCase(SubSeq(s, j, j + Len(pattern) - 1)) = toLowerCase(pattern)

\* new RegExp(pattern, 'i').test(s), intention-detector.ts:74-75
RegexTest(pattern, s) == \E j \in 1..Len(s) : MatchesAt(pattern, s, j)

\* new RegExp(`["'].*${pattern}.*["']`, 'i').test(userText),
\* intention-detector.ts:77-78: a quotation mark, any characters but line
\* breaks, the pattern, any characters but line breaks, a quotation mark
QuotedTest(pattern, text) ==
  \E i \in 1..Len(text), j \in 1..Len(text), k \in 1..Len(text) :
     /\ IsQuoteChar(text[i])
     /\ i < j
     /\ MatchesAt(pattern, text, j)
     /\ k >= j + Len(pattern)
     /\ IsQuoteChar(text[k])
     /\ \A m \in ((i + 1)..(j - 1)) \cup ((j + Len(pattern))..(k - 1)) :
           text[m] # NL

\* category in MIRS_CATEGORIES, intention-detector.ts:104: the in operator
\* finds own and inherited properties of the object
InMirsCategories(category) ==
  category \in (DOMAIN MIRS_CATEGORIES) \cup ObjectPrototypeKeys

(***************************************************************************)
(* Detection results.                                                      *)
(***************************************************************************)
Reason(tag, arg) == [tag |-> tag, arg |-> arg]

DirectReason == Reason("direct category match", << >>)
ItemReason(item) == Reason("matched item", item)
TriggerReason(pattern) == Reason("trigger", pattern)
StickyReason == Reason("kept previous due to ambiguity", << >>)
DefaultReason == Reason("default to OPEN (no clear signal)", << >>)

Detection(category, reason) == [category |-> category, reason |-> reason]

NoDetection == Detection(Null, Reason(Null, << >>))

(***************************************************************************)
(* The deterministic steps of detect, intention-detector.ts:47-89.         *)
(***************************************************************************)
\* categoryKey.toLowerCase() and categoryLabel.toLowerCase(), lines 50-51
LowerKeys == [c \in Categories |-> toLowerCase(<<c>>)]

LowerLabels == [c \in Categories |-> toLowerCase(CATEGORY_LABELS[c])]

\* the condition at lines 49-52 for category c
LabelHit(normalizedText, c) ==
  \/ normalizedText = LowerKeys[c]
  \/ normalizedText = LowerLabels[c]

\* step 1, lines 48-56: the first category in declaration order whose key
\* or label equals the normalized text
LabelStep(normalizedText) ==
  LET hits == {i \in 1..Len(CategoryKeys) : LabelHit(normalizedText, CategoryKeys[i])}
  IN IF hits = {} THEN NoDetection
     ELSE Detection(CategoryKeys[CHOOSE h \in hits : \A g \in hits : h <= g],
                    DirectReason)

\* the entries of a table of lists in the order of the nested loops over
\* Object.entries(table) and each list, with the lowercased element
RECURSIVE Entries(_, _, _)
Entries(table, i, j) ==
  IF i > Len(CategoryKeys) THEN << >>
  ELSE IF j > Len(table[CategoryKeys[i]]) THEN Entries(table, i + 1, 1)
  ELSE <<[category |-> CategoryKeys[i],
          element |-> table[CategoryKeys[i]][j],
          lower |-> toLowerCase(table[CategoryKeys[i]][j])]>>
       \o Entries(table, i, j + 1)

\* the items in the order of the loops at lines 59-60
ItemEntries == Entries(MIRS_CATEGORIES, 1, 1)

\* the patterns in the order of the loops at lines 72-73
PatternEntries == Entries(SYNONYMS, 1, 1)

\* the least element of a non-empty set of numbers
Least(S) == CHOOSE h \in S : \A g \in S : h <= g

\* the item step returning the last item that the text includes
ItemStepLast(normalizedText) ==
  LET hits == {i \in 1..Len(ItemEntries) :
                 includes(normalizedText, ItemEntries[i].lower)}
      last == CHOOSE h \in hits : \A g \in hits : g <= h
  IN IF hits = {} THEN NoDetection
     ELSE Detection(ItemEntries[last].category,
                    ItemReason(ItemEntries[last].element))

\* step 2, lines 59-69: the first item in declaration order that the
\* normalized text includes
ItemStep(normalizedText) ==
  LET hits == {i \in 1..Len(ItemEntries) :
                 includes(normalizedText, ItemEntries[i].lower)}
  IN IF hits = {} THEN NoDetection
     ELSE Detection(ItemEntries[Least(hits)].category,
                    ItemReason(ItemEntries[Least(hits)].element))

\* the test at lines 74-80 for one pattern: it matches the normalized text
\* and the quote test on the original text does not skip it
TriggerHit(pattern, normalizedText, text) ==
  /\ RegexTest(pattern, normalizedText)
  /\ ~QuotedTest(pattern, text)

\* step 3, lines 72-89: the first pattern in declaration order that fires
TriggerStep(normalizedText, text) ==
  LET hits == {i \in 1..Len(PatternEntries) :
                 TriggerHit(PatternEntries[i].element, normalizedText, text)}
  IN IF hits = {} THEN NoDetection
     ELSE Detection(PatternEntries[Least(hits)].category,
                    TriggerReason(PatternEntries[Least(hits)].element))

\* the steps with the trigger patterns tried before the item names
DeterministicStepsTriggerFirst(text) ==
  LET normalizedText == normalizeText(text)
      byLabel == LabelStep(normalizedText)
      byItem == ItemStep(normalizedText)
      byTrigger == TriggerStep(normalizedText, text)
  IN IF byLabel # NoDetection THEN byLabel
     ELSE IF byTrigger # NoDetection THEN byTrigger
     ELSE byItem

\* steps 1 to 3 in order, each returning at its first hit
DeterministicSteps(text) ==
  LET normalizedText == normalizeText(text)
      byLabel == LabelStep(normalizedText)
      byItem == ItemStep(normalizedText)
      byTrigger == TriggerStep(normalizedText, text)
  IN IF byLabel # NoDetection THEN byLabel
     ELSE IF byItem # NoDetection THEN byItem
     ELSE byTrigger


(***************************************************************************)
(* The LLM fallback, intention-detector.ts:128-181.                        *)
(***************************************************************************)
\* the role label of a turn, intention-detector.ts:169
RolePrefix(role) ==
  IF role = "user" THEN <<"LEARNER:", SP>> ELSE <<"DIALOGIC_FEEDBACK:", SP>>

\* the loop of createHistorySnippet from turn i down, lines 167-178
RECURSIVE SnippetLoop(_, _, _, _, _)
SnippetLoop(hist, i, totalChars, buffer, budget) ==
  IF i < 1 THEN buffer
  ELSE LET piece == RolePrefix(hist[i].role) \o Trim(hist[i].content)
           total == totalChars + Len(piece) + 1
       IN IF total > budget THEN buffer
          ELSE SnippetLoop(hist, i - 1, total, <<piece>> \o buffer, budget)

\* createHistorySnippet, lines 162-181, before the join: the pieces kept
createHistorySnippet(hist, budget) == SnippetLoop(hist, Len(hist), 0, << >>, budget)

\* what generateObject can do, lines 142-151: resolve with an object that
\* conforms to the schema {category: string, reason: string}, or reject
\* (the request failed, or the output did not conform)
LlmCategoryStrings == {"PERS", "open", "UNKNOWN", "", "constructor"}

LlmReasonStrings == {"the learner asks about it", "kept previous due to ambiguity"}

LlmOutcomes ==
  [kind : {"object"}, category : LlmCategoryStrings, reason : LlmReasonStrings]
    \cup
  [kind : {"network error", "malformed output"}, category : {Null}, reason : {Null}]

\* fallbackLlm without its catch block: a rejection of generateObject
\* leaves the function
fallbackLlmNoCatch(outcome) ==
  IF outcome.kind = "object"
  THEN [kind |-> "ok", category |-> outcome.category,
        reason |-> Reason(outcome.reason, << >>)]
  ELSE [kind |-> "thrown", category |-> Null, reason |-> Reason(Null, << >>)]

\* fallbackLlm, lines 128-160: the try block returns ok(...) and the catch
\* block turns every rejection into err(...)
fallbackLlm(outcome) ==
  IF outcome.kind = "object"
  THEN [kind |-> "ok", category |-> outcome.category,
        reason |-> Reason(outcome.reason, << >>)]
  ELSE [kind |-> "err", category |-> Null, reason |-> Reason(Null, << >>)]

(***************************************************************************)
(* The classifier instance and one detect call on it.                      *)
(***************************************************************************)
VARIABLES
  lastCategory,     \* IntentionDetector.lastCategory (Null: null)
  useLlmFallback,   \* IntentionDetector.useLlmFallback
  maxHistoryChars,  \* IntentionDetector.maxHistoryChars
  pc,               \* "idle", "awaitLlm" (suspended at line 101), "returned"
  userText,         \* the argument userText of the call
  history,          \* the argument history of the call
  detection,        \* the value the call resolved with
  thrown,           \* the call rejected instead of resolving
  llmRequested,     \* the call issued the generateObject request
  llmSnippet,       \* the history pieces of that request's prompt
  llmOutcome,       \* what generateObject did
  priorCategory,    \* lastCategory when the call started
  lastReturned      \* the category the preceding call resolved with

detVars ==
  <<lastCategory, useLlmFallback, maxHistoryChars, pc, userText, history,
    detection, thrown, llmRequested, llmSnippet, llmOutcome, priorCategory,
    lastReturned>>

(***************************************************************************)
(* The sendMessage endpoint and the message store.                         *)
(***************************************************************************)
VARIABLES
  active,        \* the conversations that receive messages
  db,            \* per conversation, the rows of TableDialogicFeedbackMessage
  run,           \* per conversation, the sendMessage call in progress
  sends,         \* per conversation, the number of sendMessage calls started
  prevDetection  \* per conversation, what the preceding call's detect returned

sendVars == <<active, db, run, sends, prevDetection>>

(***************************************************************************)
(* A DialogicFeedbackCoach and one call of trimHistoryToCharLimit on it.   *)
(***************************************************************************)
VARIABLES
  coachMaxHistoryChars,  \* DialogicFeedbackCoach.maxHistoryChars
  trimArg,               \* the argument history of the call
  trimResult,            \* the value the call returned
  trimCalls              \* 0: no call yet, 1: a call on some history,
                         \* 2: a call on the value the call before returned

coachVars == <<coachMaxHistoryChars, trimArg, trimResult, trimCalls>>

(***************************************************************************)
(* One call of fetchGradeContext.                                          *)
(***************************************************************************)
VARIABLES
  ctxPc,      \* "idle", "awaitGrade" (suspended at line 205), "returned"
  ctxGrade,   \* what the query of the grade row settled with
  ctxResult   \* the Result the call returned

ctxVars == <<ctxPc, ctxGrade, ctxResult>>

vars == <<detVars, sendVars, coachVars, ctxVars>>

NoOutcome == [kind |-> Null, category |-> Null, reason |-> Null]


(***************************************************************************)
(* Inputs.                                                                 *)
(***************************************************************************)
\* the phrases a user text is made of: a category key, a category label
\* (which holds the SHARE item "information"), a GATH item, an AGREE
\* trigger, a line break and a quotation mark
Pieces ==
  { <<"OPEN">>,
    <<"Gathers", SP, "Information">>,
    <<"Agenda", SP, "Setting">>,
    <<"Treatment", SP, "options">>,
    <<NL>>,
    <<DQ>> }

RECURSIVE TextsUpTo(_)
TextsUpTo(n) ==
  IF n = 0 THEN {<< >>}
  ELSE LET shorter == TextsUpTo(n - 1)
       IN shorter \cup {t \o p : t \in shorter, p \in Pieces}

Texts == TextsUpTo(MaxPieces)

UserTurn == [role |-> "user", content |-> <<SP, "hm">>]

CoachTurn == [role |-> "assistant", content |-> <<"tell", SP, "me", SP, "more", NL>>]

Histories == {<< >>, <<CoachTurn, UserTurn>>, <<UserTurn, CoachTurn>>}

(***************************************************************************)
(* detect, intention-detector.ts:40-114.                                   *)
(***************************************************************************)
\* if (this.lastCategory), line 92: null and the empty string are falsy
Truthy(category) == category # Null /\ category # ""

\* detect whose deterministic steps return without storing lastCategory
DetectSyncForgets(text, last, useLlm) ==
  LET det == DeterministicSteps(text)
  IN IF det # NoDetection
     THEN [suspended |-> FALSE, detection |-> det, lastCategory |-> last]
     ELSE IF Truthy(last)
     THEN [suspended |-> FALSE, detection |-> Detection(last, StickyReason),
           lastCategory |-> last]
     ELSE IF useLlm
     THEN [suspended |-> TRUE, detection |-> NoDetection, lastCategory |-> last]
     ELSE [suspended |-> FALSE, detection |-> Detection("OPEN", DefaultReason),
           lastCategory |-> "OPEN"]

\* detect that does not read the option useLlmFallback
DetectSyncIgnoresOption(text, last, useLlm) ==
  LET det == DeterministicSteps(text)
  IN IF det # NoDetection
     THEN [suspended |-> FALSE, detection |-> det, lastCategory |-> det.category]
     ELSE IF Truthy(last)
     THEN [suspended |-> FALSE, detection |-> Detection(last, StickyReason),
           lastCategory |-> last]
     ELSE [suspended |-> TRUE, detection |-> NoDetection, lastCategory |-> last]

\* detect that tries the fallback before the sticky category
DetectSyncLlmBeforeSticky(text, last, useLlm) ==
  LET det == DeterministicSteps(text)
  IN IF det # NoDetection
     THEN [suspended |-> FALSE, detection |-> det, lastCategory |-> det.category]
     ELSE IF useLlm
     THEN [suspended |-> TRUE, detection |-> NoDetection, lastCategory |-> last]
     ELSE IF Truthy(last)
     THEN [suspended |-> FALSE, detection |-> Detection(last, StickyReason),
           lastCategory |-> last]
     ELSE [suspended |-> FALSE, detection |-> Detection("OPEN", DefaultReason),
           lastCategory |-> "OPEN"]

\* detect whose default return does not store lastCategory
DetectSyncDefaultForgets(text, last, useLlm) ==
  LET det == DeterministicSteps(text)
  IN IF det # NoDetection
     THEN [suspended |-> FALSE, detection |-> det, lastCategory |-> det.category]
     ELSE IF Truthy(last)
     THEN [suspended |-> FALSE, detection |-> Detection(last, StickyReason),
           lastCategory |-> last]
     ELSE IF useLlm
     THEN [suspended |-> TRUE, detection |-> NoDetection, lastCategory |-> last]
     ELSE [suspended |-> FALSE, detection |-> Detection("OPEN", DefaultReason),
           lastCategory |-> last]

\* detect up to its first return or to the await at line 101: the value
\* returned, the new lastCategory, and whether the call is suspended
DetectSync(text, last, useLlm) ==
  LET det == DeterministicSteps(text)
  IN IF det # NoDetection
     THEN [suspended |-> FALSE, detection |-> det, lastCategory |-> det.category]
     ELSE IF Truthy(last)
     THEN [suspended |-> FALSE, detection |-> Detection(last, StickyReason),
           lastCategory |-> last]
     ELSE IF useLlm
     THEN [suspended |-> TRUE, detection |-> NoDetection, lastCategory |-> last]
     ELSE [suspended |-> FALSE, detection |-> Detection("OPEN", DefaultReason),
           lastCategory |-> "OPEN"]

\* detect that returns the fallback's category without storing it
DetectResumeForgets(llmResult, last) ==
  IF llmResult.kind = "thrown"
  THEN [thrown |-> TRUE, detection |-> NoDetection, lastCategory |-> last]
  ELSE IF llmResult.kind = "ok" /\ InMirsCategories(llmResult.category)
  THEN [thrown |-> FALSE,
        detection |-> Detection(llmResult.category, llmResult.reason),
        lastCategory |-> last]
  ELSE [thrown |-> FALSE, detection |-> Detection("OPEN", DefaultReason),
        lastCategory |-> "OPEN"]

\* detect from the await at line 101 on, lines 102-113; a rejection of the
\* awaited promise would reject detect
DetectResume(llmResult, last) ==
  IF llmResult.kind = "thrown"
  THEN [thrown |-> TRUE, detection |-> NoDetection, lastCategory |-> last]
  ELSE IF llmResult.kind = "ok" /\ InMirsCategories(llmResult.category)
  THEN [thrown |-> FALSE,
        detection |-> Detection(llmResult.category, llmResult.reason),
        lastCategory |-> llmResult.category]
  ELSE [thrown |-> FALSE, detection |-> Detection("OPEN", DefaultReason),
        lastCategory |-> "OPEN"]

(***************************************************************************)
(* State of the sendMessage endpoint.                                      *)
(***************************************************************************)
Convs == {"c1", "c2"}

\* the options the endpoint constructs its objects with:
\* IntentionDetector.maxHistoryChars, intention-detector.ts:37
DetectorMaxHistoryChars == 2400
\* DialogicFeedbackCoach.maxHistoryChars, dialogic-feedback.ts:47
CoachMaxHistoryChars == 4000
\* the per-turn overhead of trimHistoryToCharLimit, dialogic-feedback.ts:135
TurnOverhead == 20

\* a word of as many characters as the default budget of the coach
LongWord == "<a word of 4000 characters>"

\* String.prototype.length, dialogic-feedback.ts:135: every token counts
\* one character, the long word its characters
TokenChars(t) == IF t = LongWord THEN CoachMaxHistoryChars ELSE 1

RECURSIVE Chars(_)
Chars(s) == IF s = << >> THEN 0 ELSE TokenChars(Head(s)) + Chars(Tail(s))

\* a message of one long word
LongText == <<LongWord>>

\* the messages sent to a conversation
SendTexts == { <<"GATH">>, <<"Agenda", SP, "Setting">>, <<"hm">> }

\* the fragments of the completion stream, in the order of their delivery
Deltas == << <<"Good", SP>>, <<"point">>, <<"!">>, <<NL>> >>

\* what a call had emitted and stored when the caller abandoned it
NoAbort == [pc |-> Null, events |-> 0, rows |-> 0]

\* a sendMessage call that has not started
IdleRun ==
  [pc |-> "idle", message |-> << >>, history |-> << >>,
   detection |-> NoDetection, llmRequested |-> FALSE, messages |-> << >>,
   fullResponse |-> << >>, deltas |-> 0, events |-> << >>, aborted |-> FALSE,
   steps |-> << >>, failed |-> Null, cause |-> Null, atAbort |-> NoAbort]

SendIdle ==
  /\ db = [c \in Convs |-> << >>]
  /\ run = [c \in Convs |-> IdleRun]
  /\ sends = [c \in Convs |-> 0]
  /\ prevDetection = [c \in Convs |-> NoDetection]

\* new DialogicFeedbackCoach(), dialogic-feedback.ts:40-48, not yet called
CoachIdle ==
  /\ coachMaxHistoryChars = CoachMaxHistoryChars
  /\ trimArg = << >>
  /\ trimResult = << >>
  /\ trimCalls = 0

\* what a query that has not settled holds
NoGradeOutcome == [kind |-> Null]

\* what a call of fetchGradeContext that has not returned holds
NoContextResult == [ok |-> FALSE, error |-> Null]

\* fetchGradeContext is not being called
ContextIdle ==
  /\ ctxPc = "idle"
  /\ ctxGrade = NoGradeOutcome
  /\ ctxResult = NoContextResult

(***************************************************************************)
(* The classifier on its own: one instance, calls one after another.       *)
(***************************************************************************)
\* new IntentionDetector(options), intention-detector.ts:26-38
Init ==
  /\ lastCategory = Null
  /\ useLlmFallback \in BOOLEAN
  /\ maxHistoryChars = SmallHistoryChars
  /\ pc = "idle"
  /\ userText = << >>
  /\ history = << >>
  /\ detection = NoDetection
  /\ thrown = FALSE
  /\ llmRequested = FALSE
  /\ llmSnippet = << >>
  /\ llmOutcome = NoOutcome
  /\ priorCategory = Null
  /\ lastReturned = Null
  /\ active = {}
  /\ SendIdle
  /\ CoachIdle
  /\ ContextIdle

\* detect(text, hist) runs to its return or to the await of the fallback;
\* r is DetectSync for this text on this instance
DetectCall(text, hist, r) ==
  /\ pc = "idle"
  /\ pc' = IF r.suspended THEN "awaitLlm" ELSE "returned"
  /\ detection' = r.detection
  /\ lastCategory' = r.lastCategory
  /\ llmRequested' = r.suspended
  /\ llmSnippet' = IF r.suspended
                   THEN createHistorySnippet(hist, maxHistoryChars)
                   ELSE << >>
  /\ userText' = text
  /\ history' = hist
  /\ priorCategory' = lastCategory
  /\ thrown' = FALSE
  /\ llmOutcome' = NoOutcome
  /\ UNCHANGED <<useLlmFallback, maxHistoryChars, lastReturned>>
  /\ UNCHANGED <<sendVars, coachVars, ctxVars>>

\* generateObject settles and detect runs on to its return
LlmSettle(outcome) ==
  /\ pc = "awaitLlm"
  /\ \E r \in {DetectResume(fallbackLlm(outcome), lastCategory)} :
        /\ detection' = r.detection
        /\ lastCategory' = r.lastCategory
        /\ thrown' = r.thrown
  /\ llmOutcome' = outcome
  /\ pc' = "returned"
  /\ UNCHANGED <<useLlmFallback, maxHistoryChars, userText, history,
                 llmRequested, llmSnippet, priorCategory, lastReturned>>
  /\ UNCHANGED <<sendVars, coachVars, ctxVars>>

\* the caller takes the result; the instance is ready for the next call
Consume ==
  /\ pc = "returned"
  /\ pc' = "idle"
  /\ lastReturned' = IF thrown THEN lastReturned ELSE detection.category
  /\ userText' = << >>
  /\ history' = << >>
  /\ detection' = NoDetection
  /\ thrown' = FALSE
  /\ llmRequested' = FALSE
  /\ llmSnippet' = << >>
  /\ llmOutcome' = NoOutcome
  /\ priorCategory' = Null
  /\ UNCHANGED <<lastCategory, useLlmFallback, maxHistoryChars>>
  /\ UNCHANGED <<sendVars, coachVars, ctxVars>>

\* a caller calls detect with some text and some history
Detect ==
  /\ pc = "idle"
  /\ \E text \in Texts :
        \E r \in {DetectSync(text, lastCategory, useLlmFallback)} :
           \E hist \in Histories : DetectCall(text, hist, r)

\* the request of the fallback settles in one of the ways it can
Settle ==
  /\ pc = "awaitLlm"
  /\ \E outcome \in LlmOutcomes : LlmSettle(outcome)

Next ==
  \/ Detect
  \/ Settle
  \/ Consume

Spec == Init /\ [][Next]_vars


(***************************************************************************)
(* sendMessage, dialogic-feedback.ts:417-526.                              *)
(***************************************************************************)
\* trimHistoryToCharLimit from turn i down, dialogic-feedback.ts:132-142
RECURSIVE TrimLoop(_, _, _, _, _)
TrimLoop(hist, i, totalChars, result, budget) ==
  IF i < 1 THEN result
  ELSE LET total == totalChars + Chars(Trim(hist[i].content)) + TurnOverhead
       IN IF total >= budget /\ Len(result) > 0 THEN result
          ELSE TrimLoop(hist, i - 1, total, <<hist[i]>> \o result, budget)

\* trimming that stops at the budget even before a turn is collected
RECURSIVE TrimLoopWithoutFloor(_, _, _, _, _)
TrimLoopWithoutFloor(hist, i, totalChars, result, budget) ==
  IF i < 1 THEN result
  ELSE LET total == totalChars + Chars(Trim(hist[i].content)) + TurnOverhead
       IN IF total >= budget THEN result
          ELSE TrimLoopWithoutFloor(hist, i - 1, total, <<hist[i]>> \o result, budget)

trimHistoryWithoutFloor(hist, budget) ==
  TrimLoopWithoutFloor(hist, Len(hist), 0, << >>, budget)

\* trimming that stops only once the budget is passed
RECURSIVE TrimLoopPastBudget(_, _, _, _, _)
TrimLoopPastBudget(hist, i, totalChars, result, budget) ==
  IF i < 1 THEN result
  ELSE LET total == totalChars + Chars(Trim(hist[i].content)) + TurnOverhead
       IN IF total > budget /\ Len(result) > 0 THEN result
          ELSE TrimLoopPastBudget(hist, i - 1, total, <<hist[i]>> \o result, budget)

trimHistoryPastBudget(hist, budget) ==
  TrimLoopPastBudget(hist, Len(hist), 0, << >>, budget)

\* trimHistoryToCharLimit, dialogic-feedback.ts:127-145
trimHistoryToCharLimit(hist, budget) == TrimLoop(hist, Len(hist), 0, << >>, budget)

Event(type, error, textDelta, detected, categoryLabel) ==
  [type |-> type, error |-> error, textDelta |-> textDelta,
   category |-> detected.category, categoryLabel |-> categoryLabel,
   reason |-> detected.reason]

ErrorEvent(error) == Event("error", error, << >>, NoDetection, Null)

DeltaEvent(delta) == Event("text-delta", Null, delta, NoDetection, Null)

\* CATEGORY_LABELS[detection.category] || detection.category, line 519: the
\* label, the value inherited from Object.prototype, or the category itself
CategoryLabelOf(category) ==
  IF category \in DOMAIN CATEGORY_LABELS THEN CATEGORY_LABELS[category]
  ELSE IF category \in ObjectPrototypeKeys THEN <<"[inherited]", category>>
  ELSE <<category>>

\* the finish event, lines 516-521
FinishEvent(detected) ==
  Event("finish", Null, << >>, detected, CategoryLabelOf(detected.category))

\* a row of the message table, saveMessage lines 321-327
Row(role, content, categoryDetected) ==
  [role |-> role, content |-> content, categoryDetected |-> categoryDetected]

\* lines 452-457: the rows that are not system rows, as conversation turns
RECURSIVE AsTurns(_)
AsTurns(rows) ==
  IF rows = << >> THEN << >>
  ELSE IF Head(rows).role = "system" THEN AsTurns(Tail(rows))
  ELSE <<[role |-> Head(rows).role, content |-> Head(rows).content]>>
       \o AsTurns(Tail(rows))

\* a message list that is the trimmed history alone
BuildMessagesHistoryOnly(message, hist) ==
  trimHistoryToCharLimit(hist, CoachMaxHistoryChars)

\* lines 479-486 without the system prompt: the trimmed history, then the
\* new user message
BuildMessages(message, hist) ==
  trimHistoryToCharLimit(hist, CoachMaxHistoryChars)
    \o <<[role |-> "user", content |-> message]>>

\* the call ends by yielding an error event; the step that was awaited and
\* what it did are kept
Fail(c, error, cause) ==
  run' = [run EXCEPT ![c].pc = "done",
                     ![c].events = Append(@, ErrorEvent(error)),
                     ![c].failed = run[c].pc,
                     ![c].cause = cause]

\* sendMessage is called with a message; it first awaits
\* getConversationGradeId, line 424
SendMessage(c, message) ==
  /\ run[c].pc = "idle"
  /\ sends[c] < MaxSends
  /\ run' = [run EXCEPT ![c] = [IdleRun EXCEPT !.pc = "gradeLookup",
                                               !.message = message,
                                               !.steps = <<"gradeLookup">>]]
  /\ sends' = [sends EXCEPT ![c] = @ + 1]
  /\ UNCHANGED <<detVars, coachVars, ctxVars>>
  /\ UNCHANGED <<active, db, prevDetection>>

\* a grade lookup after which the history is loaded before the user turn
\* is stored
GradeLookupThenLoad(c, outcome) ==
  /\ run[c].pc = "gradeLookup"
  /\ IF outcome = "found"
     THEN run' = [run EXCEPT ![c].pc = "loadHistory",
                             ![c].steps = Append(@, "loadHistory")]
     ELSE Fail(c, "Conversation grade not found", outcome)
  /\ UNCHANGED <<detVars, coachVars, ctxVars>>
  /\ UNCHANGED <<active, db, sends, prevDetection>>

\* getConversationGradeId settles, lines 182-197 and 425-438
GradeLookup(c, outcome) ==
  /\ run[c].pc = "gradeLookup"
  /\ IF outcome = "found"
     THEN run' = [run EXCEPT ![c].pc = "saveUser",
                             ![c].steps = Append(@, "saveUser")]
     ELSE Fail(c, "Conversation grade not found", outcome)
  /\ UNCHANGED <<detVars, coachVars, ctxVars>>
  /\ UNCHANGED <<active, db, sends, prevDetection>>

\* saveMessage of the user turn settles, lines 313-332 and 439-445
SaveUser(c, ok) ==
  /\ run[c].pc = "saveUser"
  /\ IF ok
     THEN /\ db' = [db EXCEPT ![c] = Append(@, Row("user", run[c].message, Null))]
          /\ run' = [run EXCEPT ![c].pc = "loadHistory",
                                  ![c].steps = Append(@, "loadHistory")]
     ELSE /\ Fail(c, "Failed to save user message", "failed")
          /\ UNCHANGED db
  /\ UNCHANGED <<detVars, coachVars, ctxVars>>
  /\ UNCHANGED <<active, sends, prevDetection>>

\* loadConversationMessages settles, lines 334-366 and 446-460
LoadHistory(c, ok) ==
  /\ run[c].pc = "loadHistory"
  /\ IF ok
     THEN run' = [run EXCEPT ![c].pc = "fetchContext",
                             ![c].history = AsTurns(db[c]),
                             ![c].steps = Append(@, "fetchContext")]
     ELSE Fail(c, "Failed to load conversation history", "failed")
  /\ UNCHANGED <<detVars, coachVars, ctxVars>>
  /\ UNCHANGED <<active, db, sends, prevDetection>>

\* lines 476-493 after detect returned: the messages are built and
\* streamText is awaited
AfterDetect(c, detected, requested) ==
  run' = [run EXCEPT ![c].pc = "streamOpen",
                     ![c].detection = detected,
                     ![c].llmRequested = requested,
                     ![c].messages = BuildMessages(run[c].message, run[c].history),
                     ![c].steps = (IF requested THEN @ ELSE Append(@, "detect"))
                                  \o <<"buildMessages", "streamText">>]

\* the message of the error fetchGradeContext returns, lines 212-224 and
\* 307-309
fetchGradeContextError(outcome) ==
  IF outcome = "not ready"
  THEN "Conversation has not been fully processed yet. Please wait for scoring to complete."
  ELSE "Failed to fetch grade data"

\* the message of the error getConversationGradeId returns, lines 189-196
getConversationGradeIdError(outcome) ==
  IF outcome = "missing"
  THEN "Conversation grade not found"
  ELSE "Failed to get conversation grade ID"

\* a classification that starts from the category last detected in
\* another conversation
FetchContextShared(c, outcome) ==
  /\ run[c].pc = "fetchContext"
  /\ IF outcome = "ok"
     THEN \E last \in {run[d].detection.category : d \in Convs \ {c}} :
          \E r \in {DetectSync(run[c].message, last, TRUE)} :
            IF r.suspended
            THEN run' = [run EXCEPT ![c].pc = "awaitLlm",
                                    ![c].llmRequested = TRUE,
                                    ![c].steps = Append(@, "detect")]
            ELSE AfterDetect(c, r.detection, FALSE)
     ELSE Fail(c, "Failed to load grade context", outcome)
  /\ UNCHANGED <<detVars, coachVars, ctxVars>>
  /\ UNCHANGED <<active, db, sends, prevDetection>>

\* fetchGradeContext settles, lines 461-473: on success a new
\* IntentionDetector({useLlmFallback: true}) is constructed and detect runs
\* to its return or to the await of the fallback
FetchContext(c, outcome) ==
  /\ run[c].pc = "fetchContext"
  /\ IF outcome = "ok"
     THEN \E r \in {DetectSync(run[c].message, Null, TRUE)} :
            IF r.suspended
            THEN run' = [run EXCEPT ![c].pc = "awaitLlm",
                                    ![c].llmRequested = TRUE,
                                    ![c].steps = Append(@, "detect")]
            ELSE AfterDetect(c, r.detection, FALSE)
     ELSE Fail(c, "Failed to load grade context", outcome)
  /\ UNCHANGED <<detVars, coachVars, ctxVars>>
  /\ UNCHANGED <<active, db, sends, prevDetection>>

\* the fallback request of detect settles, then lines 476-493
SendLlmSettle(c, outcome) ==
  /\ run[c].pc = "awaitLlm"
  /\ \E r \in {DetectResume(fallbackLlm(outcome), Null)} :
       IF r.thrown
       THEN Fail(c, "Failed to generate response", "failed")
       ELSE AfterDetect(c, r.detection, TRUE)
  /\ UNCHANGED <<detVars, coachVars, ctxVars>>
  /\ UNCHANGED <<active, db, sends, prevDetection>>

\* streamText settles, lines 489-495
StreamOpen(c, ok) ==
  /\ run[c].pc = "streamOpen"
  /\ IF ok
     THEN run' = [run EXCEPT ![c].pc = "streaming"]
     ELSE Fail(c, "Failed to generate response", "failed")
  /\ UNCHANGED <<detVars, coachVars, ctxVars>>
  /\ UNCHANGED <<active, db, sends, prevDetection>>

\* the stream delivers a fragment, lines 498-504
StreamDelta(c) ==
  /\ run[c].pc = "streaming"
  /\ run[c].deltas < MaxDeltas
  /\ IF run[c].aborted
     THEN run' = [run EXCEPT ![c].pc = "done"]
     ELSE \E delta \in {Deltas[(run[c].deltas % Len(Deltas)) + 1]} :
            run' = [run EXCEPT ![c].fullResponse = @ \o delta,
                               ![c].deltas = @ + 1,
                               ![c].events = Append(@, DeltaEvent(delta))]
  /\ UNCHANGED <<detVars, coachVars, ctxVars>>
  /\ UNCHANGED <<active, db, sends, prevDetection>>

\* a failure of the stream that leaves the call without an event
StreamThrowUncaught(c) ==
  /\ run[c].pc = "streaming"
  /\ run' = [run EXCEPT ![c].pc = "done", ![c].failed = "streaming",
                        ![c].cause = "failed"]
  /\ UNCHANGED <<detVars, coachVars, ctxVars>>
  /\ UNCHANGED <<active, db, sends, prevDetection>>

\* the stream fails while it is read, lines 498 and 523-525
StreamThrow(c) ==
  /\ run[c].pc = "streaming"
  /\ Fail(c, "Failed to generate response", "failed")
  /\ UNCHANGED <<detVars, coachVars, ctxVars>>
  /\ UNCHANGED <<active, db, sends, prevDetection>>

\* the stream ends; saveMessage of the assistant turn is awaited, line 507
StreamEnd(c) ==
  /\ run[c].pc = "streaming"
  /\ run' = [run EXCEPT ![c].pc = "saveAssistant",
                        ![c].steps = Append(@, "saveAssistant")]
  /\ UNCHANGED <<detVars, coachVars, ctxVars>>
  /\ UNCHANGED <<active, db, sends, prevDetection>>

\* saveMessage of the assistant turn settles, lines 507-521: its result is
\* dropped and the finish event is yielded
SaveAssistant(c, ok) ==
  /\ run[c].pc = "saveAssistant"
  /\ db' = IF ok
           THEN [db EXCEPT ![c] = Append(@, Row("assistant", run[c].fullResponse,
                                                 run[c].detection.category))]
           ELSE db
  /\ run' = [run EXCEPT ![c].pc = "done",
                        ![c].events = Append(@, FinishEvent(run[c].detection)),
                        ![c].steps = Append(@, "finish"),
                        ![c].failed = IF ok THEN @ ELSE "saveAssistant",
                        ![c].cause = IF ok THEN @ ELSE "failed"]
  /\ UNCHANGED <<detVars, coachVars, ctxVars>>
  /\ UNCHANGED <<active, sends, prevDetection>>

\* the caller abandons the call: signal.aborted becomes true
Abort(c) ==
  /\ run[c].pc \notin {"idle", "done"}
  /\ ~run[c].aborted
  /\ run' = [run EXCEPT ![c].aborted = TRUE,
                        ![c].atAbort = [pc |-> run[c].pc,
                                        events |-> Len(run[c].events),
                                        rows |-> Len(db[c])]]
  /\ UNCHANGED <<detVars, coachVars, ctxVars>>
  /\ UNCHANGED <<active, db, sends, prevDetection>>

\* the call is over; the conversation can receive its next message
Close(c) ==
  /\ run[c].pc = "done"
  /\ run' = [run EXCEPT ![c] = IdleRun]
  /\ prevDetection' = [prevDetection EXCEPT ![c] =
                         IF run[c].detection # NoDetection
                         THEN run[c].detection ELSE @]
  /\ UNCHANGED <<detVars, coachVars, ctxVars>>
  /\ UNCHANGED <<active, db, sends>>

GradeOutcomes == {"found", "missing", "failed"}

ContextOutcomes == {"ok", "not ready", "failed"}

\* one conversation receives messages one after another
SendInit ==
  /\ lastCategory = Null
  /\ useLlmFallback = TRUE
  /\ maxHistoryChars = DetectorMaxHistoryChars
  /\ pc = "idle"
  /\ userText = << >>
  /\ history = << >>
  /\ detection = NoDetection
  /\ thrown = FALSE
  /\ llmRequested = FALSE
  /\ llmSnippet = << >>
  /\ llmOutcome = NoOutcome
  /\ priorCategory = Null
  /\ lastReturned = Null
  /\ active = {"c1"}
  /\ SendIdle
  /\ CoachIdle
  /\ ContextIdle

SendNext ==
  \/ \E c \in active, message \in SendTexts : SendMessage(c, message)
  \/ \E c \in active, outcome \in GradeOutcomes : GradeLookup(c, outcome)
  \/ \E c \in active, ok \in BOOLEAN : SaveUser(c, ok)
  \/ \E c \in active, ok \in BOOLEAN : LoadHistory(c, ok)
  \/ \E c \in active, outcome \in ContextOutcomes : FetchContext(c, outcome)
  \/ \E c \in active, outcome \in LlmOutcomes : SendLlmSettle(c, outcome)
  \/ \E c \in active, ok \in BOOLEAN : StreamOpen(c, ok)
  \/ \E c \in active : StreamDelta(c)
  \/ \E c \in active : StreamThrow(c)
  \/ \E c \in active : StreamEnd(c)
  \/ \E c \in active, ok \in BOOLEAN : SaveAssistant(c, ok)
  \/ \E c \in active : Abort(c)
  \/ \E c \in active : Close(c)

SpecSend == SendInit /\ [][SendNext]_vars


(***************************************************************************)
(* One conversation that receives short messages and messages that alone   *)
(* reach the budget of the coach.                                          *)
(***************************************************************************)
LongSendTexts == { <<"GATH">>, LongText }

LongMessageNext ==
  \/ \E c \in active, message \in LongSendTexts : SendMessage(c, message)
  \/ \E c \in active, outcome \in GradeOutcomes : GradeLookup(c, outcome)
  \/ \E c \in active, ok \in BOOLEAN : SaveUser(c, ok)
  \/ \E c \in active, ok \in BOOLEAN : LoadHistory(c, ok)
  \/ \E c \in active, outcome \in ContextOutcomes : FetchContext(c, outcome)
  \/ \E c \in active, outcome \in LlmOutcomes : SendLlmSettle(c, outcome)
  \/ \E c \in active, ok \in BOOLEAN : StreamOpen(c, ok)
  \/ \E c \in active : StreamDelta(c)
  \/ \E c \in active : StreamThrow(c)
  \/ \E c \in active : StreamEnd(c)
  \/ \E c \in active, ok \in BOOLEAN : SaveAssistant(c, ok)
  \/ \E c \in active : Abort(c)
  \/ \E c \in active : Close(c)

SpecLongMessage == SendInit /\ [][LongMessageNext]_vars


(***************************************************************************)
(* Two conversations that each receive one message, their sendMessage      *)
(* calls interleaved in every way.                                         *)
(***************************************************************************)
PairInit ==
  /\ lastCategory = Null
  /\ useLlmFallback = TRUE
  /\ maxHistoryChars = DetectorMaxHistoryChars
  /\ pc = "idle"
  /\ userText = << >>
  /\ history = << >>
  /\ detection = NoDetection
  /\ thrown = FALSE
  /\ llmRequested = FALSE
  /\ llmSnippet = << >>
  /\ llmOutcome = NoOutcome
  /\ priorCategory = Null
  /\ lastReturned = Null
  /\ active = Convs
  /\ SendIdle
  /\ CoachIdle
  /\ ContextIdle

PairNext ==
  \/ \E c \in active, message \in SendTexts :
        sends[c] = 0 /\ SendMessage(c, message)
  \/ \E c \in active, outcome \in GradeOutcomes : GradeLookup(c, outcome)
  \/ \E c \in active, ok \in BOOLEAN : SaveUser(c, ok)
  \/ \E c \in active, ok \in BOOLEAN : LoadHistory(c, ok)
  \/ \E c \in active, outcome \in ContextOutcomes : FetchContext(c, outcome)
  \/ \E c \in active, outcome \in LlmOutcomes : SendLlmSettle(c, outcome)
  \/ \E c \in active, ok \in BOOLEAN : StreamOpen(c, ok)
  \/ \E c \in active : StreamDelta(c)
  \/ \E c \in active : StreamThrow(c)
  \/ \E c \in active : StreamEnd(c)
  \/ \E c \in active, ok \in BOOLEAN : SaveAssistant(c, ok)
  \/ \E c \in active : Abort(c)
  \/ \E c \in active : Close(c)

SpecPair == PairInit /\ [][PairNext]_vars


(***************************************************************************)
(* trimHistoryToCharLimit on its own: a coach constructed with some        *)
(* maxHistoryChars, called on some history and then on what it returned.   *)
(***************************************************************************)
\* a turn whose content is white space only
BlankTurn == [role |-> "user", content |-> <<SP, NL>>]

TurnKinds == {UserTurn, CoachTurn, BlankTurn}

RECURSIVE HistoriesUpTo(_)
HistoriesUpTo(n) ==
  IF n = 0 THEN {<< >>}
  ELSE LET shorter == HistoriesUpTo(n - 1)
       IN shorter \cup {Append(h, t) : h \in shorter, t \in TurnKinds}

\* options.maxHistoryChars of the constructor, line 47: budgets at and
\* around the cost of one and of two turns, and the default
CoachBudgets ==
  {TurnOverhead, TurnOverhead + 1, 2 * TurnOverhead + 6, 3 * TurnOverhead,
   CoachMaxHistoryChars}

\* new DialogicFeedbackCoach({maxHistoryChars}), lines 40-48
TrimInit ==
  /\ lastCategory = Null
  /\ useLlmFallback = TRUE
  /\ maxHistoryChars = DetectorMaxHistoryChars
  /\ pc = "idle"
  /\ userText = << >>
  /\ history = << >>
  /\ detection = NoDetection
  /\ thrown = FALSE
  /\ llmRequested = FALSE
  /\ llmSnippet = << >>
  /\ llmOutcome = NoOutcome
  /\ priorCategory = Null
  /\ lastReturned = Null
  /\ active = {}
  /\ SendIdle
  /\ coachMaxHistoryChars \in CoachBudgets
  /\ trimArg = << >>
  /\ trimResult = << >>
  /\ trimCalls = 0
  /\ ContextIdle

\* coach.trimHistoryToCharLimit(hist), lines 127-145
TrimHistory(hist) ==
  /\ trimArg' = hist
  /\ trimResult' = trimHistoryToCharLimit(hist, coachMaxHistoryChars)
  /\ trimCalls' = 1
  /\ UNCHANGED coachMaxHistoryChars
  /\ UNCHANGED <<detVars, sendVars, ctxVars>>

\* the coach is called again on the history it returned
TrimAgain ==
  /\ trimCalls = 1
  /\ trimArg' = trimResult
  /\ trimResult' = trimHistoryToCharLimit(trimResult, coachMaxHistoryChars)
  /\ trimCalls' = 2
  /\ UNCHANGED coachMaxHistoryChars
  /\ UNCHANGED <<detVars, sendVars, ctxVars>>

TrimNext ==
  \/ \E hist \in HistoriesUpTo(MaxTurns) : TrimHistory(hist)
  \/ TrimAgain

SpecTrim == TrimInit /\ [][TrimNext]_vars

(***************************************************************************)
(* fetchGradeContext, dialogic-feedback.ts:200-310.                        *)
(***************************************************************************)
\* the values of the field score of a stored item: numbers, NaN (of type
\* number) and a string
JsNumber(n) == [type |-> "number", nan |-> FALSE, n |-> n]

JsNaN == [type |-> "number", nan |-> TRUE, n |-> 0]

JsString == [type |-> "string", nan |-> FALSE, n |-> 0]

ItemScores == {JsNumber(0), JsNumber(4), JsNaN, JsString}

\* a number is falsy when it is 0 or NaN
TruthyScore(score) == score.type = "string" \/ (~score.nan /\ score.n # 0)

\* primaryItem.score || 3, lines 281-282
ScoreOr3(score) == IF TruthyScore(score) THEN score ELSE JsNumber(3)

\* a quote of the annotated transcript
StoredQuote == [transcript_index |-> 7, quote |-> "I hear you"]

\* the field quotes of a stored item: an array of quotes, or no array
ItemQuotes ==
  {[array |-> TRUE, list |-> <<StoredQuote>>], [array |-> FALSE, list |-> << >>]}

ItemNames == {"Agenda Setting", "Empathy", ""}

ItemRationales == {"", "The learner set no agenda."}

FeedbackItems ==
  [mirs_name : ItemNames, score : ItemScores, quotes : ItemQuotes,
   selection_rationale : ItemRationales]

RECURSIVE ItemListsUpTo(_)
ItemListsUpTo(n) ==
  IF n = 0 THEN {<< >>}
  ELSE LET shorter == ItemListsUpTo(n - 1)
       IN shorter \cup {Append(l, item) : l \in shorter, item \in FeedbackItems}

\* grade.mirsScores: absent, or one entry with a score and an explanation
MirsScores ==
  {<< >>, <<[name |-> "Empathy", score |-> JsNumber(2),
             explanation |-> "Named the feeling."]>>}

\* the grade rows: annotatedTranscriptV1 absent, or with its selected
\* feedback items
Grades ==
  [processed : {FALSE}, selected_feedback_items : {<< >>}, mirsScores : MirsScores]
    \cup
  [processed : {TRUE}, selected_feedback_items : ItemListsUpTo(MaxItems),
   mirsScores : MirsScores]

\* what the query at lines 205-210 settles with
GradeQueryOutcomes ==
  {[kind |-> "rejected"], [kind |-> "none"]}
    \cup {[kind |-> "row", grade |-> g] : g \in Grades}

\* the test of the filter at lines 234-238
IsValidItem(item) ==
  /\ item.mirs_name # ""
  /\ item.score.type = "number"
  /\ item.quotes.array

\* lines 251-263: the quotes of one item as conversation quotes
RECURSIVE AsConversationQuotes(_)
AsConversationQuotes(quotes) ==
  IF quotes = << >> THEN << >>
  ELSE <<[index |-> Head(quotes).transcript_index, speaker |-> "unknown",
          quote |-> Head(quotes).quote]>>
       \o AsConversationQuotes(Tail(quotes))

RECURSIVE AllQuotes(_)
AllQuotes(items) ==
  IF items = << >> THEN << >>
  ELSE AsConversationQuotes(Head(items).quotes.list) \o AllQuotes(Tail(items))

\* metrics[name] = entry, lines 288 and 298
PutMetric(metrics, name, entry) ==
  [k \in DOMAIN metrics \cup {name} |-> IF k = name THEN entry ELSE metrics[k]]

\* lines 287-292: one entry per valid item, a later item replacing an
\* earlier one of the same name
RECURSIVE ItemMetrics(_, _)
ItemMetrics(items, metrics) ==
  IF items = << >> THEN metrics
  ELSE ItemMetrics(Tail(items),
         PutMetric(metrics, Head(items).mirs_name,
           [score |-> Head(items).score,
            explanation |-> IF Head(items).selection_rationale # ""
                            THEN Head(items).selection_rationale
                            ELSE "scored /5 based on performance analysis."]))

\* lines 295-304: the entries of grade.mirsScores whose name has no entry
RECURSIVE MirsMetrics(_, _)
MirsMetrics(entries, metrics) ==
  IF entries = << >> THEN metrics
  ELSE MirsMetrics(Tail(entries),
         IF Head(entries).name \in DOMAIN metrics THEN metrics
         ELSE PutMetric(metrics, Head(entries).name,
                [score |-> IF TruthyScore(Head(entries).score)
                           THEN Head(entries).score ELSE JsNumber(0),
                 explanation |-> Head(entries).explanation]))

\* lines 246-283: the refinement payload, from the first valid item
Refinement(validItems) ==
  LET primaryItem == validItems[1]
      rationale == primaryItem.selection_rationale
  IN [final_feedback |->
        <<primaryItem.mirs_name,
          IF rationale # "" THEN rationale
          ELSE "Multiple aspects of your communication show potential for improvement.">>,
      rationale |->
        IF rationale # "" THEN rationale
        ELSE "This skill matters because it improves patient understanding, trust, and safety.",
      quotes |-> AllQuotes(validItems),
      index |-> [i \in 1..Len(AllQuotes(validItems)) |-> AllQuotes(validItems)[i].index],
      actionable_suggestions |-> <<"Focus on improving your", primaryItem.mirs_name>>,
      score |-> ScoreOr3(primaryItem.score),
      explanation |->
        <<ScoreOr3(primaryItem.score),
          IF rationale # "" THEN rationale
          ELSE "Areas for improvement have been identified based on communication effectiveness.">>]

ContextError(message) == [ok |-> FALSE, error |-> message]

\* fetchGradeContext from the settling of its query on, lines 212-306
fetchGradeContext(outcome) ==
  IF outcome.kind = "rejected" THEN ContextError("Failed to fetch grade data")
  ELSE IF outcome.kind = "none" THEN ContextError("Grade not found")
  ELSE IF ~outcome.grade.processed
  THEN ContextError(fetchGradeContextError("not ready"))
  ELSE IF outcome.grade.selected_feedback_items = << >>
  THEN ContextError("No refined feedback items available for this conversation.")
  ELSE LET validItems == SelectSeq(outcome.grade.selected_feedback_items, IsValidItem)
       IN IF validItems = << >>
          THEN ContextError("No valid feedback items found with required MIRS data.")
          ELSE [ok |-> TRUE,
                refinement |-> Refinement(validItems),
                metrics |-> MirsMetrics(outcome.grade.mirsScores,
                                        ItemMetrics(validItems, << >>))]

\* fetchGradeContext(scoreId) is called and awaits its query, line 205
CallFetchGradeContext ==
  /\ ctxPc = "idle"
  /\ ctxPc' = "awaitGrade"
  /\ UNCHANGED <<ctxGrade, ctxResult>>
  /\ UNCHANGED <<detVars, sendVars, coachVars>>

\* the query settles and the call runs on to its return
GradeQuerySettles(outcome) ==
  /\ ctxPc = "awaitGrade"
  /\ ctxPc' = "returned"
  /\ ctxGrade' = outcome
  /\ ctxResult' = fetchGradeContext(outcome)
  /\ UNCHANGED <<detVars, sendVars, coachVars>>

ContextInit ==
  /\ lastCategory = Null
  /\ useLlmFallback = TRUE
  /\ maxHistoryChars = DetectorMaxHistoryChars
  /\ pc = "idle"
  /\ userText = << >>
  /\ history = << >>
  /\ detection = NoDetection
  /\ thrown = FALSE
  /\ llmRequested = FALSE
  /\ llmSnippet = << >>
  /\ llmOutcome = NoOutcome
  /\ priorCategory = Null
  /\ lastReturned = Null
  /\ active = {}
  /\ SendIdle
  /\ CoachIdle
  /\ ContextIdle

ContextNext ==
  \/ CallFetchGradeContext
  \/ \E outcome \in GradeQueryOutcomes : GradeQuerySettles(outcome)

SpecContext == ContextInit /\ [][ContextNext]_vars


(***************************************************************************)
(* Properties.  The vocabulary of the properties is defined from the       *)
(* configuration tables and the token sequence of a text, not from the     *)
(* steps of detect.                                                        *)
(***************************************************************************)
\* the token at position i of s survives: it is no white space, or it is
\* the first white space after a word that is not the last word
Survives(s, i) ==
  \/ ~IsSpace(s[i])
  \/ /\ i > 1
     /\ ~IsSpace(s[i - 1])
     /\ \E j \in (i + 1)..Len(s) : ~IsSpace(s[j])

\* a surviving token as it reads in the normal form
Reading(t) == IF IsSpace(t) THEN SP ELSE LowerToken(t)

IsKept(mark) == mark.keep

ReadingsOf(marks) == [i \in 1..Len(marks) |-> Reading(marks[i].tok)]

\* a text with its white space collapsed, trimmed and in lower case
NormalForm(text) ==
  ReadingsOf(SelectSeq([i \in 1..Len(text) |->
                          [tok |-> text[i], keep |-> Survives(text, i)]],
                       IsKept))

IsSubstring(needle, hay) ==
  \E j \in 0..(Len(hay) - Len(needle)) :
     SubSeq(hay, j + 1, j + Len(needle)) = needle

\* the text is, up to case and white space, the key or the label of c
KeyAndLabelFormsOf ==
  [c \in Categories |-> {NormalForm(<<c>>), NormalForm(CATEGORY_LABELS[c])}]

KeyAndLabelForms == UNION {KeyAndLabelFormsOf[c] : c \in Categories}

\* the categories whose key or label is the normal form
CategoriesNamedBy(form) == {c \in Categories : form \in KeyAndLabelFormsOf[c]}

EqualsSomeLabel(text) == NormalForm(text) \in KeyAndLabelForms

\* the positions of the entries whose element the normal form contains
EntriesIn(entries, form) ==
  {i \in 1..Len(entries) : IsSubstring(entries[i].lower, form)}

\* the configured items, by position in declaration order, that the text
\* contains
ItemsIn(text) == EntriesIn(ItemEntries, NormalForm(text))

\* the configured trigger patterns that the text contains
PatternsIn(text) == EntriesIn(PatternEntries, NormalForm(text))

\* the first of a set of positions, if it has one
FirstOf(positions) == {i \in positions : \A j \in positions : i <= j}

\* no label, item or trigger match
Ambiguous(text) ==
  /\ ~EqualsSomeLabel(text)
  /\ ItemsIn(text) = {}
  /\ PatternsIn(text) = {}

\* the spans <<a, b>> of the original text that read as the pattern
Occurrences(pattern, text) ==
  {o \in (1..Len(text)) \X (1..Len(text)) :
     /\ o[1] <= o[2]
     /\ LowerToken(text[o[1]]) = LowerToken(Head(pattern))
     /\ ~IsSpace(text[o[2]])
     /\ NormalForm(SubSeq(text, o[1], o[2])) = NormalForm(pattern)}

\* the span lies between an opening and a closing quotation mark
InsideQuotes(text, a, b) ==
  /\ Cardinality({i \in 1..(a - 1) : IsQuoteChar(text[i])}) % 2 = 1
  /\ \E k \in (b + 1)..Len(text) : IsQuoteChar(text[k])

\* the pattern occurs in the text, and only inside quotation marks
OnlyQuoted(pattern, text) ==
  /\ Occurrences(pattern, text) # {}
  /\ \A o \in Occurrences(pattern, text) : InsideQuotes(text, o[1], o[2])

\* apart from quoted patterns the text holds no label, item or trigger
OnlyQuotedSignals(text) ==
  /\ ~EqualsSomeLabel(text)
  /\ ItemsIn(text) = {}
  /\ PatternsIn(text) # {}
  /\ \A i \in PatternsIn(text) : OnlyQuoted(PatternEntries[i].element, text)

\* C1: within one conversation, when a message sent through sendMessage was
\* classified as C, a following ambiguous message sent through sendMessage
\* in the same conversation is classified as C with reason "kept previous
\* due to ambiguity".
C1_StickyAcrossTurns ==
  \A c \in Convs :
     (/\ run[c].detection # NoDetection
      /\ prevDetection[c] # NoDetection
      /\ Ambiguous(run[c].message))
     => run[c].detection = Detection(prevDetection[c].category, StickyReason)

\* C2: for every text, history and outcome of the fallback request, detect
\* resolves with a category and a reason and never rejects.
C2_DetectNeverFails ==
  pc = "returned" =>
     /\ ~thrown
     /\ detection.category # Null
     /\ detection.reason.tag # Null

\* a call returned after the fallback request failed
C2_Witness ==
  /\ pc = "returned"
  /\ llmOutcome.kind = "network error"
  /\ detection = Detection("OPEN", DefaultReason)

\* C3: the category detect returns is always one of the configured
\* categories; a category string of the fallback that is not configured is
\* rejected and detect returns OPEN with the default reason.
C3_ClosedEnumeration ==
  pc = "returned" =>
     /\ detection.category \in Categories
     /\ (llmOutcome.kind = "object" /\ llmOutcome.category \notin Categories)
        => detection = Detection("OPEN", DefaultReason)

\* C4: a trigger pattern whose only occurrences lie inside quotation marks
\* of the original text does not give its category; when the text holds no
\* other signal the result comes from the sticky category, the fallback or
\* the default.
C4_QuotedTriggerDoesNotSwitch ==
  pc = "returned" =>
     /\ \A i \in 1..Len(PatternEntries) :
           OnlyQuoted(PatternEntries[i].element, userText)
           => detection.reason # TriggerReason(PatternEntries[i].element)
     /\ OnlyQuotedSignals(userText)
        => \/ /\ priorCategory # Null
              /\ detection = Detection(priorCategory, StickyReason)
           \/ llmRequested
           \/ detection = Detection("OPEN", DefaultReason)

\* C5: once a call on the instance has returned category C, a following
\* call with ambiguous text returns C with reason "kept previous due to
\* ambiguity", for every history and both settings of the fallback.
C5_StickyOnAmbiguity ==
  (pc # "idle" /\ lastReturned # Null /\ Ambiguous(userText))
  => /\ pc = "returned"
     /\ detection = Detection(lastReturned, StickyReason)

\* an ambiguous call with a history, on an instance with the fallback
\* enabled, kept the category of the preceding call
C5_Witness ==
  /\ pc = "returned"
  /\ lastReturned = "GATH"
  /\ useLlmFallback
  /\ history # << >>
  /\ userText = <<NL, NL>>
  /\ detection = Detection("GATH", StickyReason)

\* C6: when a call of detect has returned, by whichever step, lastCategory
\* is the category it returned.
C6_LastCategoryIsReturned ==
  (pc = "returned" /\ ~thrown) => lastCategory = detection.category

\* a call returned the category chosen by the fallback
C6_Witness ==
  /\ pc = "returned"
  /\ llmOutcome.kind = "object"
  /\ detection.category = "PERS"
  /\ lastCategory = "PERS"

\* C7: a text that equals, up to white space and case, a category key or
\* label gives that category with reason "direct category match", for
\* every history and every sticky category.
C7_DirectMatch ==
  pc # "idle" =>
     \A c \in CategoriesNamedBy(NormalForm(userText)) :
        /\ pc = "returned"
        /\ detection = Detection(c, DirectReason)

\* a key surrounded by white space, with a history and another sticky
\* category
C7_Witness ==
  /\ pc = "returned"
  /\ userText = <<NL, "OPEN", NL>>
  /\ priorCategory = "GATH"
  /\ history # << >>
  /\ detection = Detection("OPEN", DirectReason)

\* C8 as stated: a text that contains a configured item and equals no key
\* or label gives the category of that item, with the item in the reason.
C8_EveryContainedItem ==
  (pc # "idle" /\ ~EqualsSomeLabel(userText)) =>
     \A i \in ItemsIn(userText) :
        /\ pc = "returned"
        /\ detection = Detection(ItemEntries[i].category,
                                 ItemReason(ItemEntries[i].element))

\* C8: a text that contains configured items and equals no key or label
\* gives the category of the contained item that comes first in the
\* declaration order of the configuration, with that item in the reason,
\* whatever the sticky category and the trigger patterns.
C8_FirstContainedItem ==
  (pc # "idle" /\ ~EqualsSomeLabel(userText)) =>
     \A first \in FirstOf(ItemsIn(userText)) :
        /\ pc = "returned"
        /\ detection = Detection(ItemEntries[first].category,
                                 ItemReason(ItemEntries[first].element))

\* a text with items of two categories and a trigger, on an instance with
\* a sticky category
C8_Witness ==
  /\ pc = "returned"
  /\ userText = <<"Gathers", SP, "Information", "Agenda", SP, "Setting",
                  "Treatment", SP, "options">>
  /\ priorCategory = "OPEN"
  /\ detection.category = "GATH"
  /\ detection.reason.tag = "matched item"

\* C9: with no sticky category and the fallback disabled, an ambiguous
\* text, the empty and the white-space-only text included, gives OPEN with
\* the default reason.
C9_DefaultWithoutFallback ==
  (/\ pc # "idle"
   /\ priorCategory = Null
   /\ ~useLlmFallback
   /\ Ambiguous(userText))
  => /\ pc = "returned"
     /\ ~llmRequested
     /\ detection = Detection("OPEN", DefaultReason)

\* a white-space-only text on a new instance with the fallback disabled
C9_Witness ==
  /\ pc = "returned"
  /\ ~useLlmFallback
  /\ priorCategory = Null
  /\ userText = <<NL, NL>>
  /\ detection = Detection("OPEN", DefaultReason)

EventsOf(c, type) ==
  {i \in 1..Len(run[c].events) : run[c].events[i].type = type}

\* the step that is awaited at a position of the call
StepAt(position) ==
  IF position \in {"streamOpen", "streaming"} THEN "streamText"
  ELSE IF position = "awaitLlm" THEN "detect"
  ELSE position

\* C11: when a fallible step of sendMessage fails (grade lookup, persist
\* user turn, load history, fetch rubric context, completion stream,
\* persist assistant turn), no later step runs and the caller receives an
\* error event and no finish event.
C11_FirstFailureStops ==
  \A c \in Convs :
     run[c].failed # Null =>
        /\ run[c].steps[Len(run[c].steps)] = StepAt(run[c].failed)
        /\ EventsOf(c, "error") # {}
        /\ EventsOf(c, "finish") = {}

\* C12: a run of sendMessage emits at most one error event, and never
\* emits it after a text-delta event of the same response.
C12_NoErrorAfterDelta ==
  \A c \in Convs :
     /\ Cardinality(EventsOf(c, "error")) <= 1
     /\ \A e \in EventsOf(c, "error") :
           \A d \in EventsOf(c, "text-delta") : e < d

\* C13: when the caller abandons the call while the completion stream is
\* being read, the call emits no further event (no text-delta, finish or
\* error) and stores no assistant turn.
C13_AbandonedStreamIsSilent ==
  \A c \in Convs :
     run[c].atAbort.pc = "streaming" =>
        /\ Len(run[c].events) = run[c].atAbort.events
        /\ Len(db[c]) = run[c].atAbort.rows

\* C14: a run of sendMessage that is not cancelled ends with exactly one
\* terminal event, a finish event (with category, categoryLabel and reason)
\* or an error event; every event before it is a text-delta event and no
\* event follows it.
C14_OneTerminalEvent ==
  \A c \in Convs :
     (run[c].pc = "done" /\ ~run[c].aborted) =>
        /\ run[c].events # << >>
        /\ \A i \in 1..Len(run[c].events) :
              IF i < Len(run[c].events)
              THEN run[c].events[i].type = "text-delta"
              ELSE \/ /\ run[c].events[i].type = "finish"
                      /\ run[c].events[i].category # Null
                      /\ run[c].events[i].categoryLabel # Null
                      /\ run[c].events[i].reason.tag # Null
                   \/ /\ run[c].events[i].type = "error"
                      /\ run[c].events[i].error # Null

\* a run that ended with two fragments and then the finish event
C14_Witness ==
  /\ run["c1"].pc = "done"
  /\ ~run["c1"].aborted
  /\ Len(run["c1"].events) = 3
  /\ run["c1"].events[2].type = "text-delta"
  /\ run["c1"].events[3].type = "finish"
  /\ run["c1"].events[3].categoryLabel = CATEGORY_LABELS["GATH"]

\* the error event that ended the call of c
LastError(c) == run[c].events[Len(run[c].events)].error

\* C15: when the rubric context is not yet computed, the failure that
\* sendMessage surfaces carries the not-ready, wait-and-retry message and
\* differs from what it surfaces for other failures of fetching the
\* context.
C15_NotReadyIsSurfaced ==
  \A c \in Convs :
     (run[c].failed = "fetchContext" /\ run[c].cause = "not ready") =>
        /\ LastError(c) = fetchGradeContextError("not ready")
        /\ LastError(c) # "Failed to load grade context"

\* C16: a persistence failure during the grade lookup of sendMessage is not
\* reported as 'Conversation grade not found'; only a missing grade is.
C16_LookupFailureIsNotNotFound ==
  \A c \in Convs :
     run[c].failed = "gradeLookup" =>
        (LastError(c) = getConversationGradeIdError("missing")
           <=> run[c].cause = "missing")

\* the steps of a call in the order of the code
Pipeline ==
  <<"gradeLookup", "saveUser", "loadHistory", "fetchContext", "detect",
    "buildMessages", "streamText", "saveAssistant", "finish">>

Started(c, step) == \E i \in 1..Len(run[c].steps) : run[c].steps[i] = step

\* C19: a call of sendMessage starts its steps in one fixed order (persist
\* user turn, load history, fetch rubric context, classify, build prompt,
\* request completion, persist assistant turn, emit finish), the step it
\* awaits is the one it started last, and a step starts only when the steps
\* before it have had their effect.
C19_FixedStepOrder ==
  \A c \in Convs :
     /\ run[c].steps = SubSeq(Pipeline, 1, Len(run[c].steps))
     /\ run[c].pc \notin {"idle", "done"}
        => run[c].steps[Len(run[c].steps)] = StepAt(run[c].pc)
     /\ Started(c, "loadHistory")
        => \E i \in 1..Len(db[c]) : db[c][i] = Row("user", run[c].message, Null)
     /\ Started(c, "fetchContext") => run[c].history # << >>
     /\ Started(c, "buildMessages")
        => run[c].detection # NoDetection /\ run[c].messages # << >>
     /\ Started(c, "saveAssistant") => run[c].pc \in {"saveAssistant", "done"}
     /\ EventsOf(c, "finish") # {} => Started(c, "saveAssistant")

\* a call that ran all its steps
C19_Witness ==
  /\ run["c1"].pc = "done"
  /\ run["c1"].steps = Pipeline
  /\ run["c1"].llmRequested

\* what a conversation that runs alone can detect for a message
DetectionsAlone(message) ==
  LET first == DetectSync(message, Null, TRUE)
  IN IF first.suspended
     THEN {DetectResume(fallbackLlm(outcome), Null).detection :
             outcome \in LlmOutcomes}
     ELSE {first.detection}

\* the pairs of a message and a detection it can get alone
AloneDetections ==
  UNION {{<<message, d>> : d \in DetectionsAlone(message)} :
           message \in SendTexts}

\* C20: under every interleaving of two calls of sendMessage for different
\* conversations, what one call detects is what it can detect for its
\* message when its conversation runs alone, whatever the other call was
\* sent and detected.
C20_ConversationsIndependent ==
  \A c \in Convs :
     run[c].detection # NoDetection
     => <<run[c].message, run[c].detection>> \in AloneDetections

\* both calls in progress: one detected GATH, the other went to the default
\* for an ambiguous message
C20_Witness ==
  /\ run["c2"].pc = "streaming"
  /\ run["c2"].detection.category = "GATH"
  /\ run["c1"].pc = "streamOpen"
  /\ run["c1"].message = <<"hm">>
  /\ run["c1"].detection = Detection("OPEN", DefaultReason)

(***************************************************************************)
(* Properties of the history snippet and of history trimming.              *)
(***************************************************************************)
\* a turn as it reads in the snippet: its role label and trimmed content
SnippetPiece(turn) == RolePrefix(turn.role) \o Trim(turn.content)

\* the last k turns of a history, oldest first
LatestTurns(hist, k) == SubSeq(hist, Len(hist) - k + 1, Len(hist))

\* C17: the snippet built for the fallback request of a call with a
\* non-empty history holds at least the most recent turn, whatever its
\* length, and holds the latest turns in chronological order.
C17_SnippetKeepsLatestTurn ==
  (llmRequested /\ history # << >>) =>
     \E k \in 1..Len(history) :
        llmSnippet = [i \in 1..k |-> SnippetPiece(LatestTurns(history, k)[i])]

\* the length of a content without its leading and trailing white space
TrimmedLength(content) ==
  LET inked == {i \in 1..Len(content) : ~IsSpace(content[i])}
  IN IF inked = {} THEN 0
     ELSE Chars(SubSeq(content,
                       CHOOSE i \in inked : \A j \in inked : i <= j,
                       CHOOSE i \in inked : \A j \in inked : j <= i))

\* what a history counts against the budget: per turn, the trimmed length
\* of its content and the fixed overhead
RECURSIVE HistoryCost(_)
HistoryCost(hist) ==
  IF hist = << >> THEN 0
  ELSE TrimmedLength(Head(hist).content) + TurnOverhead + HistoryCost(Tail(hist))

\* C18: trimHistoryToCharLimit returns a history that does not reach the
\* budget unchanged, a second call on its result returns that result
\* unchanged, and the result for a non-empty history ends with the most
\* recent turn, even when that turn alone reaches the budget.
C18_TrimKeepsShortAndLatest ==
  trimCalls > 0 =>
     /\ HistoryCost(trimArg) < coachMaxHistoryChars => trimResult = trimArg
     /\ trimCalls = 2 => trimResult = trimArg
     /\ trimArg # << >> =>
           /\ trimResult # << >>
           /\ trimResult[Len(trimResult)] = trimArg[Len(trimArg)]

\* a second call on a trimmed history whose only turn alone passes the
\* budget
C18_Witness ==
  /\ trimCalls = 2
  /\ trimResult = <<CoachTurn>>
  /\ HistoryCost(trimResult) > coachMaxHistoryChars

(***************************************************************************)
(* Properties of the order of the rules of detect.                         *)
(***************************************************************************)
\* the strongest signal a text holds: the key or label it equals, else an
\* item it contains, else a trigger pattern it contains that the quote test
\* on the original text does not skip, else none
SignalIn(form, text) ==
  IF form \in KeyAndLabelForms THEN "label"
  ELSE IF EntriesIn(ItemEntries, form) # {} THEN "item"
  ELSE IF \E i \in EntriesIn(PatternEntries, form) :
             ~QuotedTest(PatternEntries[i].element, text)
  THEN "trigger"
  ELSE "none"

SignalOf(text) == SignalIn(NormalForm(text), text)

SignalOfText == [text \in Texts |-> SignalOf(text)]

MatchedSpans(pattern, text) ==
  {o \in Occurrences(pattern, text) :
     \A p \in Occurrences(pattern, text) : o[1] <= p[1]}

\* C22: in a text without label and item, the first trigger pattern the
\* normalized text matches is skipped exactly when the span it matches lies
\* inside a quoted substring of the original text; when the span lies
\* outside every quoted substring the pattern's category is returned, also
\* when the text holds quotation marks elsewhere.
C22_SkippedExactlyWhenQuoted ==
  (pc # "idle" /\ ~EqualsSomeLabel(userText) /\ ItemsIn(userText) = {}) =>
     \A i \in FirstOf(PatternsIn(userText)) :
        \A o \in MatchedSpans(PatternEntries[i].element, userText) :
           IF InsideQuotes(userText, o[1], o[2])
           THEN detection.reason # TriggerReason(PatternEntries[i].element)
           ELSE /\ pc = "returned"
                /\ detection = Detection(PatternEntries[i].category,
                                         TriggerReason(PatternEntries[i].element))

(***************************************************************************)
(* Properties of what sendMessage stores.                                  *)
(***************************************************************************)
\* the fragments of the text-delta events of a call, concatenated in the
\* order of the events
RECURSIVE EmittedText(_)
EmittedText(events) ==
  IF events = << >> THEN << >>
  ELSE (IF Head(events).type = "text-delta" THEN Head(events).textDelta
        ELSE << >>)
       \o EmittedText(Tail(events))

\* the positions of the rows of one role in the table of c
RowsOf(c, role) == {i \in 1..Len(db[c]) : db[c][i].role = role}

\* the rows stored after the latest user row of c: the rows stored by the
\* call that stored that user row
RowsSinceUserTurn(c) ==
  {i \in 1..Len(db[c]) : \A u \in RowsOf(c, "user") : u < i}

\* C23: when a call of sendMessage that was not cancelled has emitted its
\* finish event, it has stored exactly one assistant row, whose content is
\* the concatenation in order of the fragments it emitted and whose
\* category is the category of the finish event.
C23_AssistantStoredOnce ==
  \A c \in Convs :
     (run[c].pc = "done" /\ ~run[c].aborted /\ EventsOf(c, "finish") # {}) =>
        /\ Cardinality(RowsSinceUserTurn(c)) = 1
        /\ \A i \in RowsSinceUserTurn(c) :
              db[c][i] = Row("assistant", EmittedText(run[c].events),
                             run[c].events[Len(run[c].events)].category)

(***************************************************************************)
(* Properties of the trimmed history.                                      *)
(***************************************************************************)
\* C24: trimHistoryToCharLimit returns the latest turns of its argument, in
\* the order of the argument, and a result of two or more turns costs
\* (trimmed content length plus 20 per turn) strictly less than the budget.
C24_TrimIsSuffixWithinBudget ==
  trimCalls > 0 =>
     /\ \E k \in 0..Len(trimArg) : trimResult = LatestTurns(trimArg, k)
     /\ Len(trimResult) >= 2 => HistoryCost(trimResult) < coachMaxHistoryChars

\* a history of three turns trimmed to its two latest turns
C24_Witness ==
  /\ trimCalls = 1
  /\ Len(trimArg) = 3
  /\ trimResult = <<trimArg[2], trimArg[3]>>
  /\ trimArg[1] # trimArg[2]

(***************************************************************************)
(* Properties of lastCategory over the calls on one instance.              *)
(***************************************************************************)
\* C25: on one instance whose calls run one after another, lastCategory is
\* not null from the return of the first call on; a call after the first
\* issues no fallback request and does not return the default reason.
C25_LastCategoryStaysSet ==
  /\ (pc = "returned" \/ lastReturned # Null) => Truthy(lastCategory)
  /\ lastReturned # Null =>
        /\ pc # "awaitLlm"
        /\ ~llmRequested
        /\ detection.reason # DefaultReason

\* a later call with an ambiguous text, on an instance with the fallback
\* enabled whose first call took its category from the fallback
C25_Witness ==
  /\ pc = "returned"
  /\ useLlmFallback
  /\ lastReturned = "PERS"
  /\ userText = <<DQ>>
  /\ detection = Detection("PERS", StickyReason)

(***************************************************************************)
(* Properties of the message list sent to the completion service.          *)
(***************************************************************************)
\* C26: the history of a call is loaded after its user turn is stored and
\* trimming keeps the latest turn, so the message list built for the
\* completion request ends with the new user message twice: as the last
\* turn of the history and as the appended user turn.
C26_UserMessageTwice ==
  \A c \in Convs :
     run[c].messages # << >> =>
        /\ Len(run[c].messages) >= 2
        /\ run[c].history[Len(run[c].history)]
             = [role |-> "user", content |-> run[c].message]
        /\ run[c].messages[Len(run[c].messages) - 1]
             = [role |-> "user", content |-> run[c].message]
        /\ run[c].messages[Len(run[c].messages)]
             = [role |-> "user", content |-> run[c].message]

\* the second call of a conversation, with a message that alone reaches
\* the budget: the earlier turns are trimmed away and the list is the new
\* message twice
C26_Witness ==
  /\ run["c1"].pc = "streamOpen"
  /\ run["c1"].message = LongText
  /\ Len(run["c1"].history) = 3
  /\ run["c1"].messages = <<[role |-> "user", content |-> LongText],
                            [role |-> "user", content |-> LongText]>>

\* C27: the user row a call of sendMessage stored stays stored, and when
\* the call ended because loading the history, fetching the rubric context
\* or the completion failed, or after the caller abandoned it while the
\* stream was read, that user row is the last row of the conversation: no
\* assistant row was stored for it.
C27_UserTurnKeptAlone ==
  \A c \in Convs :
     (/\ run[c].pc = "done"
      /\ \/ run[c].failed \in {"loadHistory", "fetchContext", "awaitLlm",
                               "streamOpen", "streaming"}
         \/ run[c].atAbort.pc = "streaming") =>
        /\ db[c] # << >>
        /\ db[c][Len(db[c])] = Row("user", run[c].message, Null)
        /\ RowsSinceUserTurn(c) = {}

(***************************************************************************)
(* Properties of the rubric context.                                       *)
(***************************************************************************)
\* the positions of the stored items that have a name, a numeric score and
\* an array of quotes
ValidPositions(items) ==
  {i \in 1..Len(items) :
     /\ items[i].mirs_name # ""
     /\ items[i].score.type = "number"
     /\ items[i].quotes.array}

\* C28: when fetchGradeContext succeeds, the score of the refinement
\* payload is the stored score of the first valid item, for every numeric
\* score, 0 included, and it is the score of that item's entry in the
\* metrics when no later valid item has its name.
C28_FixedScoreIsStoredScore ==
  (ctxPc = "returned" /\ ctxResult.ok) =>
     LET items == ctxGrade.grade.selected_feedback_items
     IN \A first \in FirstOf(ValidPositions(items)) :
           /\ ctxResult.refinement.score = items[first].score
           /\ (\A later \in ValidPositions(items) :
                  later # first => items[later].mirs_name # items[first].mirs_name)
              => ctxResult.metrics[items[first].mirs_name].score
                   = ctxResult.refinement.score

=============================================================================

